---- MODULE Spec2Model ----
(***************************************************************************)
(* Model of the fetch-paginate-save scripts of ai-medicine:                *)
(*   pyalex-test.py  - the OpenAlex cursor loop (variables oa_*, all_works)*)
(*   get-pubmed.py   - search_ml_medicine_articles and its entry point     *)
(* Each script is a sequential process; its position is a pc variable.     *)
(* The remote service and the operator who interrupts and re-runs a script *)
(* are the environment.                                                    *)
(***************************************************************************)
EXTENDS Integers, Sequences, FiniteSets, TLC

\* ------------------------------------------------------------------ bounds
MaxPages == 3       \* pages the simulated OpenAlex source serves
MaxPageLen == 2     \* records per page
MaxRuns == 2        \* times a script is started (first run + re-runs)
NumTitles == 4      \* distinct attribute sets the remote works carry
MaxTotal == 3       \* length of the PMC result list
NumIds == 2         \* distinct article ids in the PMC result list
MaxBatch == 2       \* largest --batch-size tried
MaxPmidBatches == 2  \* non-empty batches of PMIDs the query still has
MaxPmidBatchLen == 2 \* PMIDs per batch
MaxFetches == 4      \* requests of main.py followed in one run
MaxDlIds == 2        \* article ids in the dict handed to download_full_texts
MaxWorks == 3        \* works in the file read by the analysis
MaxAge == 1          \* publication years go back this far from current_year
MaxCitations == 2    \* largest cited_by_count of a work

\* ---------------------------------------------------------------- helpers
RECURSIVE SeqSum(_)
SeqSum(s) == IF s = <<>> THEN 0 ELSE Head(s) + SeqSum(Tail(s))

RECURSIVE Count(_, _)
Count(x, s) == IF s = <<>> THEN 0
               ELSE (IF Head(s) = x THEN 1 ELSE 0) + Count(x, Tail(s))

Range(s) == {s[i] : i \in DOMAIN s}

Last(s) == s[Len(s)]

\* ======================================================= pyalex-test.py ==
VARIABLES
  remote_pages,   \* the OpenAlex result set: page i is served for cursor i
  output_file,    \* openalex_medicine_ai_works.json: [exists, content]
  all_works,      \* the in-memory list
  cursor,         \* params["cursor"]
  response,       \* the last response: [status_code, data]
  oa_pc,          \* position of the script
  oa_stdout,      \* what the script printed in this run
  oa_exit,        \* exit status of the process, -1 while it runs
  sleep_calls,    \* time.sleep calls of this run
  requests,       \* cursors passed to requests.get in this run, in order
  pages_saved,    \* writes of output_file in this run
  persisted,      \* what the file holds: pages written so far, token after the last
  at_start,       \* what the run found when it started: file and persisted progress
  oa_run          \* number of this run

oa_vars == <<remote_pages, output_file, all_works, cursor, response, oa_pc,
             oa_stdout, oa_exit, sleep_calls, requests, pages_saved,
             persisted, at_start, oa_run>>

\* ========================================================= get-pubmed.py ==
VARIABLES
  pm_remote,        \* the PMC result list of the query: article ids in result order
  args,             \* the parsed command line: [batch_size, no_resume]
  progress_file,    \* search_progress.json: [exists, searched_combos, articles]
  pm_output_file,   \* args.output: [exists, content]
  searched_combos,  \* list of the terms already searched
  all_articles,     \* dict id -> article data, as the sequence of its items
  pm_pc,            \* position of the script
  term_idx,         \* position of the for loop over ml_terms
  total_results,    \* count reported by the first search of the term
  start,            \* offset of the batch loop
  id_list,          \* ids of the current batch
  pm_exit,          \* exit status of the process, -1 while it runs
  pm_run,           \* number of this run
  pm_requests,      \* retstart of every batch search request of this run, in order
  pm_failed_at,     \* offset of the first batch of this run whose request failed, -1 if none
  pm_malformed,     \* a response of this run lacked a field: [seen, combos_before]
  batch_persists,   \* batches of this run that ended with the write of lines 281-288
  pm_loaded,        \* what this run took from the progress file when it started
  pm_skipped,       \* terms this run skipped as already processed
  pm_clean,         \* no request of any run so far failed or was malformed
  pm_killed_after   \* an earlier run was interrupted right after its N-th batch persist: N, else 0

pm_vars == <<pm_remote, args, progress_file, pm_output_file, searched_combos,
             all_articles, pm_pc, term_idx, total_results, start, id_list,
             pm_exit, pm_run, pm_requests, pm_failed_at, pm_malformed,
             batch_persists, pm_loaded, pm_skipped, pm_clean, pm_killed_after>>


NoProgress == [exists |-> FALSE, searched_combos |-> <<>>, articles |-> <<>>]

\* get-pubmed.py is not running.
PMIdle ==
  /\ pm_remote = <<>>
  /\ args = [batch_size |-> 1, no_resume |-> FALSE]
  /\ progress_file = NoProgress
  /\ pm_output_file = [exists |-> FALSE, content |-> <<>>]
  /\ searched_combos = <<>>
  /\ all_articles = <<>>
  /\ pm_pc = "idle"
  /\ term_idx = 1
  /\ total_results = 0
  /\ start = 0
  /\ id_list = <<>>
  /\ pm_exit = -1
  /\ pm_run = 1
  /\ pm_requests = <<>>
  /\ pm_failed_at = -1
  /\ pm_malformed = [seen |-> FALSE, combos_before |-> <<>>]
  /\ batch_persists = 0
  /\ pm_loaded = [from_file |-> FALSE, searched_combos |-> <<>>, articles |-> <<>>]
  /\ pm_skipped = {}
  /\ pm_clean = TRUE
  /\ pm_killed_after = 0

\* =============================================================== main.py ==
VARIABLES
  mp_remote,        \* the PMIDs of the query from start_count on, in batches of retmax
  start_count,      \* retstart of the next request
  mp_articles,      \* articles: the list of the batches fetched in this run
  articles_batch,   \* the last return value of pmids_for_query: [is_none, pmids]
  pmidsmeta,        \* pmidsmeta.txt: its lines
  mp_pc,            \* position of the script
  mp_exit,          \* exit status of the process, -1 while it runs
  mp_run,           \* number of this run
  mp_fetches,       \* calls of pmids_for_query in this run
  mp_after_empty,   \* calls of pmids_for_query made after one returned an empty batch
  mp_saved          \* every PMID of the batches handed to the save step, all runs

mp_vars == <<mp_remote, start_count, mp_articles, articles_batch, pmidsmeta, mp_pc,
             mp_exit, mp_run, mp_fetches, mp_after_empty, mp_saved>>

StartCount == 30294
RetmaxCount == 500

NoBatch == [is_none |-> FALSE, pmids |-> <<>>]

\* main.py is not running.
MPIdle ==
  /\ mp_remote = <<>>
  /\ start_count = StartCount
  /\ mp_articles = <<>>
  /\ articles_batch = NoBatch
  /\ pmidsmeta = <<>>
  /\ mp_pc = "idle"
  /\ mp_exit = -1
  /\ mp_run = 1
  /\ mp_fetches = 0
  /\ mp_after_empty = 0
  /\ mp_saved = <<>>

\* ================================== get-pubmed.py: download_full_texts ==
VARIABLES
  dl_articles,        \* articles: the dict handed over by the entry point, as its items
  resume,             \* resume = not args.no_resume
  download_progress,  \* download_progress.json: [exists, ids]
  xml_files,          \* ids whose PMC<id>.xml is written in output_dir
  downloaded_ids,     \* the in-memory set
  dl_idx,             \* position of the for loop over articles.items()
  completed,          \* the counter
  dl_pc,              \* position of the function
  dl_run,             \* number of this run
  dl_attempts,        \* ids passed to fetch_full_text in this run, in order
  dl_fetched_ok,      \* ids whose full text was fetched successfully, all runs
  dl_loaded,          \* downloaded_ids as this run had it after loading
  dl_failures         \* exceptions caught in the loop of this run

dl_vars == <<dl_articles, resume, download_progress, xml_files, downloaded_ids,
             dl_idx, completed, dl_pc, dl_run, dl_attempts, dl_fetched_ok,
             dl_loaded, dl_failures>>

\* download_full_texts is not running.
DLIdle ==
  /\ dl_articles = <<>>
  /\ resume = TRUE
  /\ download_progress = [exists |-> FALSE, ids |-> {}]
  /\ xml_files = {}
  /\ downloaded_ids = {}
  /\ dl_idx = 1
  /\ completed = 0
  /\ dl_pc = "idle"
  /\ dl_run = 1
  /\ dl_attempts = <<>>
  /\ dl_fetched_ok = {}
  /\ dl_loaded = {}
  /\ dl_failures = 0

\* ======================================= analyze_normalized_citations.py ==
VARIABLES
  works,            \* the list loaded from openalex_medicine_ai_works.json
  citation_stats,   \* year -> statistics of the citation counts of the year
  an_scores,        \* work["normalized_citation_score"] of each work
  ranked,           \* the sorted list, as positions in works
  an_stdout,        \* the works of the printed top list, as positions in works
  an_pc             \* position of the script

an_vars == <<works, citation_stats, an_scores, ranked, an_stdout, an_pc>>

\* analyze_normalized_citations.py is not running.
ANIdle ==
  /\ works = <<>>
  /\ citation_stats = <<>>
  /\ an_scores = <<>>
  /\ ranked = <<>>
  /\ an_stdout = <<>>
  /\ an_pc = "idle"

\* The variables of the scripts modelled after the first two.
rest_vars == <<mp_vars, dl_vars, an_vars>>

RestIdle == MPIdle /\ DLIdle /\ ANIdle

vars == <<oa_vars, pm_vars, rest_vars>>

NoCursor == 0        \* meta.next_cursor absent or null
StartCursor == 1     \* "*": the cursor that addresses the first page
StatusCodes == {200, 503}

\* A work as OpenAlex returns it; the identifier is its OpenAlex id.
Work(i) == [id |-> i,
            title |-> i % NumTitles,
            publication_year |-> 2020 + (i % 2),
            cited_by_count |-> i % 3,
            authorships |-> <<>>]

\* The record the script keeps of a work: the identifier is not kept.
Record(work) == [title |-> work.title,
                 publication_year |-> work.publication_year,
                 cited_by_count |-> work.cited_by_count,
                 authors |-> work.authorships]

RECURSIVE SeqMapRecord(_)
SeqMapRecord(results) ==
  IF results = <<>> THEN <<>>
  ELSE <<Record(Head(results))>> \o SeqMapRecord(Tail(results))

\* list.extend mutated: the page is put in front of the list.
ExtendFront(list, new) == new \o list

\* list.extend
Extend(list, new) == list \o new

\* Pages of sizes[1], sizes[2], ... works with identifiers 1, 2, 3, ... ;
\* every page but the last carries the cursor of the next one.
MakePages(sizes) ==
  [i \in 1..Len(sizes) |->
     [results |-> [j \in 1..sizes[i] |-> Work(SeqSum(SubSeq(sizes, 1, i - 1)) + j)],
      next_cursor |-> IF i < Len(sizes) THEN i + 1 ELSE NoCursor]]

EmptyData == [results |-> <<>>, next_cursor |-> NoCursor]

\* What the remote answers for a cursor.
Serve(c) == IF c \in DOMAIN remote_pages THEN remote_pages[c] ELSE EmptyData

NoFile == [exists |-> FALSE, content |-> <<>>]

OAInit ==
  /\ \E P \in 1..MaxPages : \E sizes \in [1..P -> 0..MaxPageLen] :
       remote_pages = MakePages(sizes)
  /\ output_file = NoFile
  /\ all_works = <<>>
  /\ cursor = StartCursor
  /\ response = [status_code |-> 0, data |-> EmptyData]
  /\ oa_pc = "start"
  /\ oa_stdout = <<>>
  /\ oa_exit = -1
  /\ sleep_calls = 0
  /\ requests = <<>>
  /\ pages_saved = 0
  /\ persisted = [pages |-> 0, token |-> NoCursor]
  /\ at_start = [file_exists |-> FALSE, persisted |-> [pages |-> 0, token |-> NoCursor]]
  /\ oa_run = 1
  /\ PMIdle
  /\ RestIdle

\* lines 14-28: params, resume support
OAStart ==
  /\ oa_pc = "start"
  /\ cursor' = StartCursor
  /\ all_works' = IF output_file.exists THEN output_file.content ELSE <<>>
  /\ at_start' = [file_exists |-> output_file.exists, persisted |-> persisted]
  /\ oa_stdout' = Append(oa_stdout, "Starting download.")
  /\ oa_pc' = "request"
  /\ UNCHANGED <<remote_pages, output_file, response, oa_exit, sleep_calls,
                 requests, pages_saved, persisted, oa_run>>
  /\ UNCHANGED <<pm_vars, rest_vars>>

\* lines 31-34: one GET; a status other than 200 prints and leaves the loop
OARequest ==
  /\ oa_pc = "request"
  /\ requests' = Append(requests, cursor)
  /\ \E status \in StatusCodes :
       /\ response' = [status_code |-> status,
                       data |-> IF status = 200 THEN Serve(cursor) ELSE EmptyData]
       /\ IF status # 200
          THEN /\ oa_stdout' = Append(oa_stdout, "Error")
               /\ oa_pc' = "finish"
          ELSE /\ oa_stdout' = oa_stdout
               /\ oa_pc' = "process"
  /\ UNCHANGED <<remote_pages, output_file, all_works, cursor, oa_exit,
                 sleep_calls, pages_saved, persisted, at_start, oa_run>>
  /\ UNCHANGED <<pm_vars, rest_vars>>

\* lines 36-56: build the records of the page and extend the list
OAProcess ==
  /\ oa_pc = "process"
  /\ all_works' = Extend(all_works, SeqMapRecord(response.data.results))
  /\ oa_pc' = "save"
  /\ UNCHANGED <<remote_pages, output_file, cursor, response, oa_stdout, oa_exit,
                 sleep_calls, requests, pages_saved, persisted, at_start, oa_run>>
  /\ UNCHANGED <<pm_vars, rest_vars>>

\* lines 58-62: save after each page
OASave ==
  /\ oa_pc = "save"
  /\ output_file' = [exists |-> TRUE, content |-> all_works]
  /\ pages_saved' = pages_saved + 1
  /\ persisted' = [pages |-> persisted.pages + 1, token |-> response.data.next_cursor]
  /\ oa_stdout' = Append(oa_stdout, "Saved")
  /\ oa_pc' = "cursor"
  /\ UNCHANGED <<remote_pages, all_works, cursor, response, oa_exit, sleep_calls,
                 requests, at_start, oa_run>>
  /\ UNCHANGED <<pm_vars, rest_vars>>

\* lines 64-70 mutated: the missing cursor is not noticed
OACursorNoStop ==
  /\ oa_pc = "cursor"
  /\ cursor' = response.data.next_cursor
  /\ oa_pc' = "sleep"
  /\ UNCHANGED <<remote_pages, output_file, all_works, response, oa_stdout, oa_exit,
                 sleep_calls, requests, pages_saved, persisted, at_start, oa_run>>
  /\ UNCHANGED <<pm_vars, rest_vars>>

\* lines 64-71 mutated: the delay comes before the test of the cursor
OACursorSleepFirst ==
  /\ oa_pc = "cursor"
  /\ sleep_calls' = sleep_calls + 1
  /\ IF response.data.next_cursor = NoCursor
     THEN /\ oa_stdout' = Append(oa_stdout, "No more pages.")
          /\ oa_pc' = "finish"
          /\ cursor' = cursor
     ELSE /\ cursor' = response.data.next_cursor
          /\ oa_pc' = "request"
          /\ oa_stdout' = oa_stdout
  /\ UNCHANGED <<remote_pages, output_file, all_works, response, oa_exit,
                 requests, pages_saved, persisted, at_start, oa_run>>
  /\ UNCHANGED <<pm_vars, rest_vars>>

\* lines 64-70: get the next cursor; without one the loop is left
OACursor ==
  /\ oa_pc = "cursor"
  /\ IF response.data.next_cursor = NoCursor
     THEN /\ oa_stdout' = Append(oa_stdout, "No more pages.")
          /\ oa_pc' = "finish"
          /\ cursor' = cursor
     ELSE /\ cursor' = response.data.next_cursor
          /\ oa_pc' = "sleep"
          /\ oa_stdout' = oa_stdout
  /\ UNCHANGED <<remote_pages, output_file, all_works, response, oa_exit,
                 sleep_calls, requests, pages_saved, persisted, at_start, oa_run>>
  /\ UNCHANGED <<pm_vars, rest_vars>>

\* line 71: time.sleep(1), then the next iteration
OASleep ==
  /\ oa_pc = "sleep"
  /\ sleep_calls' = sleep_calls + 1
  /\ oa_pc' = "request"
  /\ UNCHANGED <<remote_pages, output_file, all_works, cursor, response, oa_stdout,
                 oa_exit, pages_saved, requests, persisted, at_start, oa_run>>
  /\ UNCHANGED <<pm_vars, rest_vars>>

\* line 73: after the loop, however it was left; the script ends, status 0
OAFinish ==
  /\ oa_pc = "finish"
  /\ oa_stdout' = Append(oa_stdout, "Finished.")
  /\ oa_exit' = 0
  /\ oa_pc' = "exited"
  /\ UNCHANGED <<remote_pages, output_file, all_works, cursor, response,
                 sleep_calls, requests, pages_saved, persisted, at_start, oa_run>>
  /\ UNCHANGED <<pm_vars, rest_vars>>

\* The process is terminated from outside (interrupt signal) while it runs.
OAInterrupt ==
  /\ oa_pc \notin {"exited", "killed"}
  /\ oa_pc' = "killed"
  /\ oa_exit' = 130
  /\ UNCHANGED <<remote_pages, output_file, all_works, cursor, response, oa_stdout,
                 sleep_calls, requests, pages_saved, persisted, at_start, oa_run>>
  /\ UNCHANGED <<pm_vars, rest_vars>>

\* The script is run again: a new process, the file is what is left on disk.
OARerun ==
  /\ oa_pc \in {"exited", "killed"}
  /\ oa_run < MaxRuns
  /\ oa_run' = oa_run + 1
  /\ all_works' = <<>>
  /\ cursor' = StartCursor
  /\ response' = [status_code |-> 0, data |-> EmptyData]
  /\ oa_pc' = "start"
  /\ oa_stdout' = <<>>
  /\ oa_exit' = -1
  /\ sleep_calls' = 0
  /\ requests' = <<>>
  /\ pages_saved' = 0
  /\ UNCHANGED <<remote_pages, output_file, persisted, at_start>>
  /\ UNCHANGED <<pm_vars, rest_vars>>

OANext ==
  \/ OAStart
  \/ OARequest
  \/ OAProcess
  \/ OASave
  \/ OACursor
  \/ OASleep
  \/ OAFinish
  \/ OAInterrupt
  \/ OARerun

SpecOpenAlex == OAInit /\ [][OANext]_vars

\* pyalex-test.py is not running.
OAIdle ==
  /\ remote_pages = <<>>
  /\ output_file = NoFile
  /\ all_works = <<>>
  /\ cursor = StartCursor
  /\ response = [status_code |-> 0, data |-> EmptyData]
  /\ oa_pc = "idle"
  /\ oa_stdout = <<>>
  /\ oa_exit = -1
  /\ sleep_calls = 0
  /\ requests = <<>>
  /\ pages_saved = 0
  /\ persisted = [pages |-> 0, token |-> NoCursor]
  /\ at_start = [file_exists |-> FALSE, persisted |-> [pages |-> 0, token |-> NoCursor]]
  /\ oa_run = 1

\* ========================================================= get-pubmed.py ==
ml_terms == <<"Artificial Intelligence">>

UidsKey == 0    \* the key "uids" of an esummary result; article ids are 1, 2, ...

\* Outcomes of one request: a 200 response with the expected fields, a
\* transport error or non-200 status (an exception), a 200 response that
\* lacks an expected field.
Outcomes == {"ok", "error", "malformed"}

\* ---- a dict as the sequence of its items <<key, value>>, in insertion order
DictHas(d, k) == \E i \in DOMAIN d : d[i][1] = k

\* d[k] = v mutated: a key that is present is stored once more
DictSetAppend(d, k, v) == Append(d, <<k, v>>)

\* d[k] = v
DictSet(d, k, v) ==
  IF DictHas(d, k)
  THEN [i \in DOMAIN d |-> IF d[i][1] = k THEN <<k, v>> ELSE d[i]]
  ELSE Append(d, <<k, v>>)

\* list(d.values())
DictValues(d) == [i \in DOMAIN d |-> d[i][2]]

\* ---- the remote: esearch and esummary
\* esearchresult.idlist for retstart, retmax
SearchIdList(retstart, retmax) ==
  SubSeq(pm_remote, retstart + 1, retstart + retmax)

\* The items of details["result"] for the ids of the batch at offset retstart:
\* the "uids" entry, then one entry per id; the data of a result carries its
\* position in the result list, so a later batch returns later data.
RECURSIVE SummaryItems(_, _, _)
SummaryItems(items, ids, pos) ==
  IF ids = <<>> THEN items
  ELSE SummaryItems(DictSet(items, Head(ids), [uid |-> Head(ids), rev |-> pos]),
                    Tail(ids), pos + 1)

Summary(ids, retstart) == SummaryItems(<< <<UidsKey, ids>> >>, ids, retstart + 1)

\* lines 273-277: every entry but "uids" is stored under its id
RECURSIVE StoreArticles(_, _)
StoreArticles(d, items) ==
  IF items = <<>> THEN d
  ELSE StoreArticles(IF Head(items)[1] # UidsKey
                     THEN DictSet(d, Head(items)[1], Head(items)[2])
                     ELSE d,
                     Tail(items))

\* json.dump of lines 281-288, 296-303, 313-314
Progress(combos, articles) ==
  [exists |-> TRUE, searched_combos |-> combos, articles |-> articles]

PMInit ==
  /\ OAIdle
  /\ RestIdle
  /\ pm_remote \in UNION {[1..n -> 1..NumIds] : n \in 0..MaxTotal}
  /\ args \in [batch_size : 1..MaxBatch, no_resume : BOOLEAN]
  /\ progress_file = NoProgress
  /\ pm_output_file = [exists |-> FALSE, content |-> <<>>]
  /\ searched_combos = <<>>
  /\ all_articles = <<>>
  /\ pm_pc = "load"
  /\ term_idx = 1
  /\ total_results = 0
  /\ start = 0
  /\ id_list = <<>>
  /\ pm_exit = -1
  /\ pm_run = 1
  /\ pm_requests = <<>>
  /\ pm_failed_at = -1
  /\ pm_malformed = [seen |-> FALSE, combos_before |-> <<>>]
  /\ batch_persists = 0
  /\ pm_loaded = [from_file |-> FALSE, searched_combos |-> <<>>, articles |-> <<>>]
  /\ pm_skipped = {}
  /\ pm_clean = TRUE
  /\ pm_killed_after = 0

\* lines 435-443 and 193-215: the entry point calls the search, which takes
\* no resume argument and loads the progress file whenever there is one
PMLoad ==
  /\ pm_pc = "load"
  /\ IF progress_file.exists
     THEN /\ searched_combos' = progress_file.searched_combos
          /\ all_articles' = progress_file.articles
     ELSE /\ searched_combos' = <<>>
          /\ all_articles' = <<>>
  /\ pm_loaded' = [from_file |-> progress_file.exists,
                   searched_combos |-> searched_combos',
                   articles |-> all_articles']
  /\ term_idx' = 1
  /\ pm_pc' = "term"
  /\ UNCHANGED <<pm_remote, args, progress_file, pm_output_file, total_results,
                 start, id_list, pm_exit, pm_run, pm_requests, pm_failed_at,
                 pm_malformed, batch_persists, pm_skipped, pm_clean, pm_killed_after>>
  /\ UNCHANGED <<oa_vars, rest_vars>>

\* lines 223-231: the next term; one found in searched_combos is skipped
PMTerm ==
  /\ pm_pc = "term"
  /\ IF term_idx > Len(ml_terms)
     THEN /\ pm_pc' = "output"
          /\ UNCHANGED <<term_idx, pm_skipped>>
     ELSE IF ml_terms[term_idx] \in Range(searched_combos)
          THEN /\ pm_skipped' = pm_skipped \cup {ml_terms[term_idx]}
               /\ term_idx' = term_idx + 1
               /\ pm_pc' = "term"
          ELSE /\ pm_pc' = "count"
               /\ UNCHANGED <<term_idx, pm_skipped>>
  /\ UNCHANGED <<pm_remote, args, progress_file, pm_output_file, searched_combos,
                 all_articles, total_results, start, id_list, pm_exit, pm_run,
                 pm_requests, pm_failed_at, pm_malformed, batch_persists,
                 pm_loaded, pm_clean, pm_killed_after>>
  /\ UNCHANGED <<oa_vars, rest_vars>>

\* lines 234-247, 304-307: the first search of the term (retmax=0), outside
\* any try: an exception ends the process; a response without count, or
\* without webenv/querykey, is logged as a warning and the term is left
PMCount ==
  /\ pm_pc = "count"
  /\ \E outcome \in Outcomes \cup {"no_webenv"} :
       /\ pm_clean' = (pm_clean /\ outcome = "ok")
       /\ pm_malformed' = IF outcome = "malformed" /\ ~pm_malformed.seen
                          THEN [seen |-> TRUE, combos_before |-> searched_combos]
                          ELSE pm_malformed
       /\ CASE outcome = "ok" ->
                 /\ total_results' = Len(pm_remote)
                 /\ start' = 0
                 /\ pm_pc' = "batch"
                 /\ pm_exit' = pm_exit
            [] outcome = "error" ->
                 /\ pm_pc' = "crashed"
                 /\ pm_exit' = 1
                 /\ UNCHANGED <<total_results, start>>
            [] OTHER ->
                 /\ pm_pc' = "mark"
                 /\ UNCHANGED <<total_results, start, pm_exit>>
  /\ UNCHANGED <<pm_remote, args, progress_file, pm_output_file, searched_combos,
                 all_articles, term_idx, id_list, pm_run, pm_requests,
                 pm_failed_at, batch_persists, pm_loaded, pm_skipped, pm_killed_after>>
  /\ UNCHANGED <<oa_vars, rest_vars>>

\* lines 249-265, 293-303: the next batch of range(0, total_results,
\* batch_size) and its search request; an exception is logged, the progress
\* is written, and the for loop goes on with the next batch
PMBatch ==
  /\ pm_pc = "batch"
  /\ IF start >= total_results
     THEN /\ pm_pc' = "mark"
          /\ UNCHANGED <<progress_file, start, id_list, pm_requests, pm_failed_at,
                         pm_malformed, pm_clean>>
     ELSE /\ pm_requests' = Append(pm_requests, start)
          /\ \E outcome \in Outcomes :
               /\ pm_clean' = (pm_clean /\ outcome = "ok")
               /\ pm_malformed' = IF outcome = "malformed" /\ ~pm_malformed.seen
                                  THEN [seen |-> TRUE, combos_before |-> searched_combos]
                                  ELSE pm_malformed
               /\ CASE outcome = "ok" ->
                         /\ id_list' = SearchIdList(start,
                                IF args.batch_size < total_results - start
                                THEN args.batch_size ELSE total_results - start)
                         /\ pm_pc' = IF id_list' # <<>> THEN "details" ELSE "save"
                         /\ UNCHANGED <<progress_file, start, pm_failed_at>>
                    [] outcome = "error" ->
                         /\ progress_file' = Progress(searched_combos, all_articles)
                         /\ pm_failed_at' = IF pm_failed_at = -1 THEN start ELSE pm_failed_at
                         /\ start' = start + args.batch_size
                         /\ pm_pc' = "batch"
                         /\ UNCHANGED id_list
                    [] outcome = "malformed" ->
                         /\ pm_pc' = "save"
                         /\ UNCHANGED <<progress_file, start, id_list, pm_failed_at>>
  /\ UNCHANGED <<pm_remote, args, pm_output_file, searched_combos, all_articles,
                 term_idx, total_results, pm_exit, pm_run, batch_persists,
                 pm_loaded, pm_skipped, pm_killed_after>>
  /\ UNCHANGED <<oa_vars, rest_vars>>

\* lines 267-277, 293-303: the details of the ids of the batch
PMDetails ==
  /\ pm_pc = "details"
  /\ \E outcome \in Outcomes :
       /\ pm_clean' = (pm_clean /\ outcome = "ok")
       /\ pm_malformed' = IF outcome = "malformed" /\ ~pm_malformed.seen
                          THEN [seen |-> TRUE, combos_before |-> searched_combos]
                          ELSE pm_malformed
       /\ CASE outcome = "ok" ->
                 /\ all_articles' = StoreArticles(all_articles, Summary(id_list, start))
                 /\ pm_pc' = "save"
                 /\ UNCHANGED <<progress_file, start, pm_failed_at>>
            [] outcome = "error" ->
                 /\ progress_file' = Progress(searched_combos, all_articles)
                 /\ pm_failed_at' = IF pm_failed_at = -1 THEN start ELSE pm_failed_at
                 /\ start' = start + args.batch_size
                 /\ pm_pc' = "batch"
                 /\ UNCHANGED all_articles
            [] outcome = "malformed" ->
                 /\ pm_pc' = "save"
                 /\ UNCHANGED <<progress_file, start, all_articles, pm_failed_at>>
  /\ UNCHANGED <<pm_remote, args, pm_output_file, searched_combos, term_idx,
                 total_results, id_list, pm_exit, pm_run, pm_requests,
                 batch_persists, pm_loaded, pm_skipped, pm_killed_after>>
  /\ UNCHANGED <<oa_vars, rest_vars>>

\* lines 279-291 mutated: the loop offset is not advanced after a batch
PMSaveNoAdvance ==
  /\ pm_pc = "save"
  /\ searched_combos' = Append(searched_combos, ml_terms[term_idx])
  /\ progress_file' = Progress(searched_combos', all_articles)
  /\ batch_persists' = batch_persists + 1
  /\ pm_pc' = "batch"
  /\ UNCHANGED <<pm_remote, args, pm_output_file, all_articles, term_idx,
                 total_results, start, id_list, pm_exit, pm_run, pm_requests,
                 pm_failed_at, pm_malformed, pm_loaded, pm_skipped, pm_clean,
                 pm_killed_after>>
  /\ UNCHANGED <<oa_vars, rest_vars>>

\* lines 279-291 mutated: the progress is not written after a batch
PMSaveNoWrite ==
  /\ pm_pc = "save"
  /\ searched_combos' = Append(searched_combos, ml_terms[term_idx])
  /\ batch_persists' = batch_persists + 1
  /\ start' = start + args.batch_size
  /\ pm_pc' = "batch"
  /\ UNCHANGED <<pm_remote, args, progress_file, pm_output_file, all_articles,
                 term_idx, total_results, id_list, pm_exit, pm_run, pm_requests,
                 pm_failed_at, pm_malformed, pm_loaded, pm_skipped, pm_clean,
                 pm_killed_after>>
  /\ UNCHANGED <<oa_vars, rest_vars>>

\* lines 279-291: after each batch the term is appended to searched_combos,
\* the progress is written, and the loop sleeps before the next batch
PMSave ==
  /\ pm_pc = "save"
  /\ searched_combos' = Append(searched_combos, ml_terms[term_idx])
  /\ progress_file' = Progress(searched_combos', all_articles)
  /\ batch_persists' = batch_persists + 1
  /\ start' = start + args.batch_size
  /\ pm_pc' = "batch"
  /\ UNCHANGED <<pm_remote, args, pm_output_file, all_articles, term_idx,
                 total_results, id_list, pm_exit, pm_run, pm_requests, pm_failed_at,
                 pm_malformed, pm_loaded, pm_skipped, pm_clean, pm_killed_after>>
  /\ UNCHANGED <<oa_vars, rest_vars>>

\* lines 309-314: the term is marked as completed and the progress written
PMMark ==
  /\ pm_pc = "mark"
  /\ searched_combos' = Append(searched_combos, ml_terms[term_idx])
  /\ progress_file' = Progress(searched_combos', all_articles)
  /\ term_idx' = term_idx + 1
  /\ pm_pc' = "term"
  /\ UNCHANGED <<pm_remote, args, pm_output_file, all_articles, total_results,
                 start, id_list, pm_exit, pm_run, pm_requests, pm_failed_at,
                 pm_malformed, batch_persists, pm_loaded, pm_skipped, pm_clean,
                 pm_killed_after>>
  /\ UNCHANGED <<oa_vars, rest_vars>>

\* lines 316-325: the list of the articles is written to the output file and
\* the search returns to the entry point
PMOutput ==
  /\ pm_pc = "output"
  /\ pm_output_file' = [exists |-> TRUE, content |-> DictValues(all_articles)]
  /\ pm_pc' = "exited"
  /\ pm_exit' = 0
  /\ UNCHANGED <<pm_remote, args, progress_file, searched_combos, all_articles,
                 term_idx, total_results, start, id_list, pm_run, pm_requests,
                 pm_failed_at, pm_malformed, batch_persists, pm_loaded, pm_skipped,
                 pm_clean, pm_killed_after>>
  /\ UNCHANGED <<oa_vars, rest_vars>>

\* The process is terminated from outside while it runs.
PMInterrupt ==
  /\ pm_pc \notin {"exited", "crashed", "killed", "idle"}
  /\ pm_killed_after' = IF pm_pc = "batch" THEN batch_persists ELSE 0
  /\ pm_pc' = "killed"
  /\ pm_exit' = 130
  /\ UNCHANGED <<pm_remote, args, progress_file, pm_output_file, searched_combos,
                 all_articles, term_idx, total_results, start, id_list, pm_run,
                 pm_requests, pm_failed_at, pm_malformed, batch_persists,
                 pm_loaded, pm_skipped, pm_clean>>
  /\ UNCHANGED <<oa_vars, rest_vars>>

\* The script is run again with the same command line: a new process, the
\* files are what is left on disk.
PMRerun ==
  /\ pm_pc \in {"exited", "crashed", "killed"}
  /\ pm_run < MaxRuns
  /\ pm_run' = pm_run + 1
  /\ searched_combos' = <<>>
  /\ all_articles' = <<>>
  /\ pm_pc' = "load"
  /\ term_idx' = 1
  /\ total_results' = 0
  /\ start' = 0
  /\ id_list' = <<>>
  /\ pm_exit' = -1
  /\ pm_requests' = <<>>
  /\ pm_failed_at' = -1
  /\ pm_malformed' = [seen |-> FALSE, combos_before |-> <<>>]
  /\ batch_persists' = 0
  /\ pm_loaded' = [from_file |-> FALSE, searched_combos |-> <<>>, articles |-> <<>>]
  /\ pm_skipped' = {}
  /\ UNCHANGED <<pm_remote, args, progress_file, pm_output_file, pm_clean,
                 pm_killed_after>>
  /\ UNCHANGED <<oa_vars, rest_vars>>

PMNext ==
  \/ PMLoad
  \/ PMTerm
  \/ PMCount
  \/ PMBatch
  \/ PMDetails
  \/ PMSave
  \/ PMMark
  \/ PMOutput
  \/ PMInterrupt
  \/ PMRerun

SpecPubMed == PMInit /\ [][PMNext]_vars

\* =============================================================== main.py ==
\* The variables of the other scripts.
not_mp == <<oa_vars, pm_vars, dl_vars, an_vars>>

\* The batches of PMIDs 1, 2, 3, ... of the given sizes.
MakeBatches(sizes) ==
  [i \in 1..Len(sizes) |->
     [j \in 1..sizes[i] |-> SeqSum(SubSeq(sizes, 1, i - 1)) + j]]

\* pmids_for_query(query_string, retstart, retmax, pmc_only=True): the batch
\* at that offset, the empty list beyond the last one.
BatchAt(retstart) ==
  IF (retstart - StartCount) \div RetmaxCount + 1 \in DOMAIN mp_remote
  THEN mp_remote[(retstart - StartCount) \div RetmaxCount + 1]
  ELSE <<>>

\* line 22: the line written for a PMID
Line(pmid) == [text |-> pmid, newline |-> TRUE]

\* lines 20-23: the lines of all the batches of the list
RECURSIVE LinesOf(_)
LinesOf(batches) ==
  IF batches = <<>> THEN <<>>
  ELSE [i \in DOMAIN Head(batches).pmids |-> Line(Head(batches).pmids[i])]
       \o LinesOf(Tail(batches))

\* The batches in front of the first None of the list (all, if there is none).
RECURSIVE BeforeNone(_)
BeforeNone(batches) ==
  IF batches = <<>> \/ Head(batches).is_none THEN <<>>
  ELSE <<Head(batches)>> \o BeforeNone(Tail(batches))

MPInit ==
  /\ OAIdle
  /\ PMIdle
  /\ DLIdle
  /\ ANIdle
  /\ \E n \in 0..MaxPmidBatches : \E sizes \in [1..n -> 1..MaxPmidBatchLen] :
       mp_remote = MakeBatches(sizes)
  /\ start_count = StartCount
  /\ mp_articles = <<>>
  /\ articles_batch = NoBatch
  /\ pmidsmeta = <<>>
  /\ mp_pc = "fetch"
  /\ mp_exit = -1
  /\ mp_run = 1
  /\ mp_fetches = 0
  /\ mp_after_empty = 0
  /\ mp_saved = <<>>

\* lines 13-17: one call of pmids_for_query; it returns a list of PMIDs, or
\* None, or raises (nothing catches it)
MPFetch ==
  /\ mp_pc = "fetch"
  /\ mp_fetches < MaxFetches
  /\ mp_fetches' = mp_fetches + 1
  /\ mp_after_empty' =
       IF \E i \in DOMAIN mp_articles :
            ~mp_articles[i].is_none /\ mp_articles[i].pmids = <<>>
       THEN mp_after_empty + 1 ELSE mp_after_empty
  /\ \E outcome \in {"list", "none", "error"} :
       CASE outcome = "list" ->
              /\ articles_batch' = [is_none |-> FALSE, pmids |-> BatchAt(start_count)]
              /\ mp_pc' = "save"
              /\ mp_exit' = mp_exit
         [] outcome = "none" ->
              /\ articles_batch' = [is_none |-> TRUE, pmids |-> <<>>]
              /\ mp_pc' = "save"
              /\ mp_exit' = mp_exit
         [] outcome = "error" ->
              /\ articles_batch' = articles_batch
              /\ mp_pc' = "crashed"
              /\ mp_exit' = 1
  /\ UNCHANGED <<mp_remote, start_count, mp_articles, pmidsmeta, mp_run, mp_saved>>
  /\ UNCHANGED not_mp

\* lines 18-23: the batch is appended to articles, then pmidsmeta.txt is
\* opened for appending and a line is written for every PMID of every batch
\* of articles; iterating a None batch raises TypeError
MPSave ==
  /\ mp_pc = "save"
  /\ mp_articles' = Append(mp_articles, articles_batch)
  /\ mp_saved' = mp_saved \o articles_batch.pmids
  /\ pmidsmeta' = pmidsmeta \o LinesOf(BeforeNone(mp_articles'))
  /\ IF articles_batch.is_none
     THEN /\ mp_pc' = "crashed"
          /\ mp_exit' = 1
     ELSE /\ mp_pc' = "branch"
          /\ mp_exit' = mp_exit
  /\ UNCHANGED <<mp_remote, start_count, articles_batch, mp_run, mp_fetches,
                 mp_after_empty>>
  /\ UNCHANGED not_mp

\* lines 24-29: a batch that is not None, the empty list included, advances
\* the offset, sleeps and continues; None leaves the loop and the script ends
MPBranch ==
  /\ mp_pc = "branch"
  /\ IF ~articles_batch.is_none
     THEN /\ start_count' = start_count + 500
          /\ mp_pc' = "fetch"
          /\ mp_exit' = mp_exit
     ELSE /\ start_count' = start_count
          /\ mp_pc' = "exited"
          /\ mp_exit' = 0
  /\ UNCHANGED <<mp_remote, mp_articles, articles_batch, pmidsmeta, mp_run,
                 mp_fetches, mp_after_empty, mp_saved>>
  /\ UNCHANGED not_mp

\* The process is terminated from outside while it runs.
MPInterrupt ==
  /\ mp_pc \in {"fetch", "save", "branch"}
  /\ mp_pc' = "killed"
  /\ mp_exit' = 130
  /\ UNCHANGED <<mp_remote, start_count, mp_articles, articles_batch, pmidsmeta,
                 mp_run, mp_fetches, mp_after_empty, mp_saved>>
  /\ UNCHANGED not_mp

\* The script is run again: pmidsmeta.txt is what is left on disk.
MPRerun ==
  /\ mp_pc \in {"exited", "crashed", "killed"}
  /\ mp_run < MaxRuns
  /\ mp_run' = mp_run + 1
  /\ start_count' = StartCount
  /\ mp_articles' = <<>>
  /\ articles_batch' = NoBatch
  /\ mp_pc' = "fetch"
  /\ mp_exit' = -1
  /\ mp_fetches' = 0
  /\ mp_after_empty' = 0
  /\ UNCHANGED <<mp_remote, pmidsmeta, mp_saved>>
  /\ UNCHANGED not_mp

MPNext ==
  \/ MPFetch
  \/ MPSave
  \/ MPBranch
  \/ MPInterrupt
  \/ MPRerun

SpecMain == MPInit /\ [][MPNext]_vars

\* ================================== get-pubmed.py: download_full_texts ==
\* The variables of the other scripts.
not_dl == <<oa_vars, pm_vars, mp_vars, an_vars>>

\* The dicts over the keys: every sequence of items with pairwise distinct keys.
DictsOver(keys) ==
  {[i \in DOMAIN ks |-> <<ks[i], [uid |-> ks[i]]>>] :
     ks \in {q \in UNION {[1..n -> keys] : n \in 0..Cardinality(keys)} :
               \A i, j \in DOMAIN q : i # j => q[i] # q[j]}}

\* Outcomes of the try block: the text is fetched and saved and the progress
\* written; fetch_full_text raises; writing the xml file raises; writing
\* download_progress.json raises.
DLFetchOutcomes == {"ok", "error"}
DLSaveOutcomes == {"ok", "file_error", "progress_error"}

\* lines 445-453: the entry point calls download_full_texts with the articles
\* of the search and resume = not args.no_resume
DLInit ==
  /\ OAIdle
  /\ PMIdle
  /\ MPIdle
  /\ ANIdle
  /\ dl_articles \in DictsOver({UidsKey} \cup 1..MaxDlIds)
  /\ resume \in BOOLEAN
  /\ download_progress = [exists |-> FALSE, ids |-> {}]
  /\ xml_files = {}
  /\ downloaded_ids = {}
  /\ dl_idx = 1
  /\ completed = 0
  /\ dl_pc = "load"
  /\ dl_run = 1
  /\ dl_attempts = <<>>
  /\ dl_fetched_ok = {}
  /\ dl_loaded = {}
  /\ dl_failures = 0

\* lines 341-363: load the progress if resuming
DLLoad ==
  /\ dl_pc = "load"
  /\ downloaded_ids' = IF resume /\ download_progress.exists
                       THEN download_progress.ids ELSE {}
  /\ dl_loaded' = downloaded_ids'
  /\ completed' = 0
  /\ dl_idx' = 1
  /\ dl_pc' = "loop"
  /\ UNCHANGED <<dl_articles, resume, download_progress, xml_files, dl_run,
                 dl_attempts, dl_fetched_ok, dl_failures>>
  /\ UNCHANGED not_dl

\* lines 365-378: the next item; "uids" and the ids already downloaded are
\* passed over, the latter counted; after the last item the function returns
DLItem ==
  /\ dl_pc = "loop"
  /\ IF dl_idx > Len(dl_articles)
     THEN /\ dl_pc' = "done"
          /\ UNCHANGED <<dl_idx, completed>>
     ELSE IF dl_articles[dl_idx][1] = UidsKey
          THEN /\ dl_idx' = dl_idx + 1
               /\ UNCHANGED <<dl_pc, completed>>
          ELSE IF dl_articles[dl_idx][1] \in downloaded_ids
               THEN /\ completed' = completed + 1
                    /\ dl_idx' = dl_idx + 1
                    /\ UNCHANGED dl_pc
               ELSE /\ dl_pc' = "fetch"
                    /\ UNCHANGED <<dl_idx, completed>>
  /\ UNCHANGED <<dl_articles, resume, download_progress, xml_files, downloaded_ids,
                 dl_run, dl_attempts, dl_fetched_ok, dl_loaded, dl_failures>>
  /\ UNCHANGED not_dl

\* lines 380-381 mutated: an exception of fetch_full_text is not caught
DLFetchAborts ==
  /\ dl_pc = "fetch"
  /\ dl_attempts' = Append(dl_attempts, dl_articles[dl_idx][1])
  /\ \E outcome \in DLFetchOutcomes :
       IF outcome = "ok"
       THEN /\ dl_fetched_ok' = dl_fetched_ok \cup {dl_articles[dl_idx][1]}
            /\ dl_pc' = "save"
            /\ UNCHANGED <<dl_idx, completed, dl_failures>>
       ELSE /\ dl_failures' = dl_failures + 1
            /\ dl_pc' = "crashed"
            /\ UNCHANGED <<dl_idx, completed, dl_fetched_ok>>
  /\ UNCHANGED <<dl_articles, resume, download_progress, xml_files, downloaded_ids,
                 dl_run, dl_loaded>>
  /\ UNCHANGED not_dl

\* lines 380-401 mutated: the except clause records the id as downloaded
DLFetchMarksFailed ==
  /\ dl_pc = "fetch"
  /\ dl_attempts' = Append(dl_attempts, dl_articles[dl_idx][1])
  /\ \E outcome \in DLFetchOutcomes :
       IF outcome = "ok"
       THEN /\ dl_fetched_ok' = dl_fetched_ok \cup {dl_articles[dl_idx][1]}
            /\ dl_pc' = "save"
            /\ UNCHANGED <<dl_idx, completed, dl_failures, downloaded_ids,
                           download_progress>>
       ELSE /\ dl_failures' = dl_failures + 1
            /\ downloaded_ids' = downloaded_ids \cup {dl_articles[dl_idx][1]}
            /\ download_progress' = [exists |-> TRUE, ids |-> downloaded_ids']
            /\ completed' = completed + 1
            /\ dl_idx' = dl_idx + 1
            /\ dl_pc' = "loop"
            /\ UNCHANGED dl_fetched_ok
  /\ UNCHANGED <<dl_articles, resume, xml_files, dl_run, dl_loaded>>
  /\ UNCHANGED not_dl

\* lines 380-381, 398-401: fetch_full_text; an exception is logged, the
\* article counted and the loop goes on
DLFetch ==
  /\ dl_pc = "fetch"
  /\ dl_attempts' = Append(dl_attempts, dl_articles[dl_idx][1])
  /\ \E outcome \in DLFetchOutcomes :
       IF outcome = "ok"
       THEN /\ dl_fetched_ok' = dl_fetched_ok \cup {dl_articles[dl_idx][1]}
            /\ dl_pc' = "save"
            /\ UNCHANGED <<dl_idx, completed, dl_failures>>
       ELSE /\ dl_failures' = dl_failures + 1
            /\ completed' = completed + 1
            /\ dl_idx' = dl_idx + 1
            /\ dl_pc' = "loop"
            /\ UNCHANGED dl_fetched_ok
  /\ UNCHANGED <<dl_articles, resume, download_progress, xml_files, downloaded_ids,
                 dl_run, dl_loaded>>
  /\ UNCHANGED not_dl

\* lines 383-401: the xml file is written, then the id added to
\* downloaded_ids and the set dumped; an exception at either write is logged;
\* the article is counted in every case
DLSave ==
  /\ dl_pc = "save"
  /\ \E outcome \in DLSaveOutcomes :
       /\ xml_files' = IF outcome = "file_error" THEN xml_files
                       ELSE xml_files \cup {dl_articles[dl_idx][1]}
       /\ downloaded_ids' = IF outcome = "file_error" THEN downloaded_ids
                            ELSE downloaded_ids \cup {dl_articles[dl_idx][1]}
       /\ download_progress' = IF outcome = "ok"
                               THEN [exists |-> TRUE, ids |-> downloaded_ids']
                               ELSE download_progress
       /\ dl_failures' = IF outcome = "ok" THEN dl_failures ELSE dl_failures + 1
  /\ completed' = completed + 1
  /\ dl_idx' = dl_idx + 1
  /\ dl_pc' = "loop"
  /\ UNCHANGED <<dl_articles, resume, dl_run, dl_attempts, dl_fetched_ok, dl_loaded>>
  /\ UNCHANGED not_dl

\* The process is terminated from outside while it runs.
DLInterrupt ==
  /\ dl_pc \in {"load", "loop", "fetch", "save"}
  /\ dl_pc' = "killed"
  /\ UNCHANGED <<dl_articles, resume, download_progress, xml_files, downloaded_ids,
                 dl_idx, completed, dl_run, dl_attempts, dl_fetched_ok, dl_loaded,
                 dl_failures>>
  /\ UNCHANGED not_dl

\* The script is run again with the same command line and the same articles.
DLRerun ==
  /\ dl_pc \in {"done", "killed", "crashed"}
  /\ dl_run < MaxRuns
  /\ dl_run' = dl_run + 1
  /\ downloaded_ids' = {}
  /\ dl_idx' = 1
  /\ completed' = 0
  /\ dl_pc' = "load"
  /\ dl_attempts' = <<>>
  /\ dl_loaded' = {}
  /\ dl_failures' = 0
  /\ UNCHANGED <<dl_articles, resume, download_progress, xml_files, dl_fetched_ok>>
  /\ UNCHANGED not_dl

DLNext ==
  \/ DLLoad
  \/ DLItem
  \/ DLFetch
  \/ DLSave
  \/ DLInterrupt
  \/ DLRerun

SpecDownload == DLInit /\ [][DLNext]_vars

\* ======================================= analyze_normalized_citations.py ==
\* The variables of the other scripts.
not_an == <<oa_vars, pm_vars, mp_vars, dl_vars>>

\* line 31
current_year == 2025

\* A publication_year that is missing, None or 0: falsy at line 16.
NoYear == 0

\* The records of the input file, as far as the script reads them.
WorkRecords ==
  [publication_year : {NoYear} \cup ((current_year - MaxAge)..current_year),
   cited_by_count : 0..MaxCitations]

\* lines 11-17: the citation counts of the works of one year, in file order
RECURSIVE CitationsOfYear(_, _)
CitationsOfYear(ws, year) ==
  IF ws = <<>> THEN <<>>
  ELSE (IF Head(ws).publication_year = year
        THEN <<Head(ws).cited_by_count>> ELSE <<>>)
       \o CitationsOfYear(Tail(ws), year)

\* lines 20-27: the statistics of one year; the mean is kept as the exact
\* fraction total / count
Stats(cites) == [total |-> SeqSum(cites), count |-> Len(cites)]

\* line 34: citation_stats[year]["average"] > 0
AveragePositive(st) == st.total > 0

\* work["normalized_citation_score"] = None
NoScore == [none |-> TRUE, scaled |-> 0]

\* lines 34-37: citations / current_year - int(year) + 1, the division
\* binding tighter than the subtraction; kept exactly as current_year times
\* the score
Score(work, stats) ==
  IF work.publication_year \in DOMAIN stats
     /\ AveragePositive(stats[work.publication_year])
  THEN [none |-> FALSE,
        scaled |-> work.cited_by_count
                   - current_year * work.publication_year + current_year]
  ELSE NoScore

\* line 40-44: sorted(..., reverse=True) is stable: a work goes behind every
\* work whose score is not smaller
RECURSIVE InsertDesc(_, _, _)
InsertDesc(x, s, key) ==
  IF s = <<>> THEN <<x>>
  ELSE IF key[Head(s)].scaled >= key[x].scaled
       THEN <<Head(s)>> \o InsertDesc(x, Tail(s), key)
       ELSE <<x>> \o s

RECURSIVE SortedDesc(_, _)
SortedDesc(idxs, key) ==
  IF idxs = <<>> THEN <<>>
  ELSE InsertDesc(Last(idxs), SortedDesc(SubSeq(idxs, 1, Len(idxs) - 1), key), key)

\* line 41: the works with a score, in file order
RECURSIVE Scored(_, _)
Scored(i, key) ==
  IF i > Len(key) THEN <<>>
  ELSE (IF key[i].none THEN <<>> ELSE <<i>>) \o Scored(i + 1, key)

\* lines 8-9: the file is loaded
ANInit ==
  /\ OAIdle
  /\ PMIdle
  /\ MPIdle
  /\ DLIdle
  /\ works \in UNION {[1..n -> WorkRecords] : n \in 1..MaxWorks}
  /\ citation_stats = <<>>
  /\ an_scores = <<>>
  /\ ranked = <<>>
  /\ an_stdout = <<>>
  /\ an_pc = "group"

\* lines 11-27: group the citation counts by year, compute the statistics
ANGroup ==
  /\ an_pc = "group"
  /\ citation_stats' =
       [year \in {works[i].publication_year : i \in DOMAIN works} \ {NoYear}
          |-> Stats(CitationsOfYear(works, year))]
  /\ an_pc' = "score"
  /\ UNCHANGED <<works, an_scores, ranked, an_stdout>>
  /\ UNCHANGED not_an

\* lines 29-37: the score of every work
ANScore ==
  /\ an_pc = "score"
  /\ an_scores' = [i \in DOMAIN works |-> Score(works[i], citation_stats)]
  /\ an_pc' = "rank"
  /\ UNCHANGED <<works, citation_stats, ranked, an_stdout>>
  /\ UNCHANGED not_an

\* lines 39-44: rank the works that have a score
ANRank ==
  /\ an_pc = "rank"
  /\ ranked' = SortedDesc(Scored(1, an_scores), an_scores)
  /\ an_pc' = "print"
  /\ UNCHANGED <<works, citation_stats, an_scores, an_stdout>>
  /\ UNCHANGED not_an

\* lines 46-55: print the first ten of the ranking
ANPrint ==
  /\ an_pc = "print"
  /\ an_stdout' = SubSeq(ranked, 1, IF Len(ranked) < 10 THEN Len(ranked) ELSE 10)
  /\ an_pc' = "exited"
  /\ UNCHANGED <<works, citation_stats, an_scores, ranked>>
  /\ UNCHANGED not_an

ANNext ==
  \/ ANGroup
  \/ ANScore
  \/ ANRank
  \/ ANPrint

SpecAnalyze == ANInit /\ [][ANNext]_vars

\* ----------------------------------------------- claims on pyalex-test.py
RECURSIVE RecordsOfPages(_)
RecordsOfPages(pages) ==
  IF pages = <<>> THEN <<>>
  ELSE SeqMapRecord(Head(pages).results) \o RecordsOfPages(Tail(pages))

AllRemoteRecords == RecordsOfPages(remote_pages)

RECURSIVE WorksOfPages(_)
WorksOfPages(pages) ==
  IF pages = <<>> THEN 0 ELSE Len(Head(pages).results) + WorksOfPages(Tail(pages))

\* C2 (as claimed): a re-run that finds k >= 1 persisted pages sends, as its
\* first request, the token that follows the last persisted page.
C2_FirstRequestUsesPersistedToken ==
  (/\ oa_run > 1
   /\ oa_pc \notin {"start"}
   /\ at_start.persisted.pages >= 1
   /\ at_start.persisted.token # NoCursor
   /\ Len(requests) >= 1)
  => requests[1] = at_start.persisted.token

\* C3 (as claimed): no record occurs in all_works or in the output file more
\* often than the remote source holds it, whatever was re-fetched.
C3_NoRecordTwice ==
  /\ \A r \in Range(all_works) : Count(r, all_works) <= Count(r, AllRemoteRecords)
  /\ \A r \in Range(output_file.content) :
       Count(r, output_file.content) <= Count(r, AllRemoteRecords)

\* C5 (as claimed): a run whose page request returned a status other than 200
\* never ends with exit status 0 and the "Finished." line of a complete run.
C5_FailureIsSignalled ==
  (oa_pc = "exited" /\ response.status_code # 200)
  => (oa_exit # 0 /\ Last(oa_stdout) # "Finished.")

\* The step taken after a saved page (the test of the next cursor).
OAAfterPage == oa_pc = "cursor" /\ oa_pc' # "killed" /\ oa_pc' # "cursor"

OADone == oa_pc \in {"finish", "exited"}

\* C6 (as claimed): after a response with an empty result list or without a
\* next cursor the loop is DONE in that step, and a loop that is DONE sends
\* no further request.
C6_StopsOnEmptyOrNoCursor ==
  [][/\ (OAAfterPage /\ (response.data.results = <<>>
                          \/ response.data.next_cursor = NoCursor))
        => (oa_pc' = "finish" /\ requests' = requests)
     /\ (OADone /\ oa_run' = oa_run)
        => (oa_pc' \in {"finish", "exited", "killed"} /\ requests' = requests)]_vars

\* C6 (amended): after a response without a next cursor, at any iteration,
\* the loop is DONE in that step, and a loop that is DONE sends no further
\* request in that run.
C6_StopsOnNoCursor ==
  [][/\ (OAAfterPage /\ response.data.next_cursor = NoCursor)
        => (oa_pc' = "finish" /\ requests' = requests)
     /\ (OADone /\ oa_run' = oa_run)
        => (oa_pc' \in {"finish", "exited", "killed"} /\ requests' = requests)]_vars

\* C6 witness: the first response has no results and no next cursor, and the
\* loop is left after that one request.
C6_Witness ==
  /\ oa_pc = "finish"
  /\ response.status_code = 200
  /\ response.data.results = <<>>
  /\ response.data.next_cursor = NoCursor
  /\ Len(requests) = 1

\* C7: a run that found no output file and whose requests all succeeded ends
\* with exactly the records of the pages, in page order and within-page
\* order, one per work served; after each saved page the file holds the
\* records of the pages saved so far.
C7_OutputIsConcatenation ==
  /\ (/\ oa_pc \in {"cursor", "sleep", "finish", "exited"}
      /\ ~at_start.file_exists
      /\ response.status_code = 200)
     => output_file.content = RecordsOfPages(SubSeq(remote_pages, 1, pages_saved))
  /\ (/\ oa_pc = "exited"
      /\ ~at_start.file_exists
      /\ response.status_code = 200)
     => /\ output_file.content = AllRemoteRecords
        /\ all_works = AllRemoteRecords
        /\ Len(output_file.content) = WorksOfPages(remote_pages)

\* C7 witness: 3 pages of 2 records each were fetched into an absent file.
C7_Witness ==
  /\ oa_pc = "exited"
  /\ ~at_start.file_exists
  /\ response.status_code = 200
  /\ Len(remote_pages) = 3
  /\ \A i \in 1..3 : Len(remote_pages[i].results) = 2
  /\ Len(output_file.content) = 6

\* C8 (as claimed): at the end of a run the number of sleep calls equals the
\* number of pages fetched and persisted.
C8_SleepPerPage == oa_pc = "exited" => sleep_calls = pages_saved

\* C8 (amended): the number of sleep calls equals the number of persisted
\* pages whose response carried a next cursor; the page without a next cursor
\* is not followed by a delay.
C8_SleepPerContinuedPage ==
  oa_pc \in {"request", "process", "save", "finish", "exited"}
  => sleep_calls =
       Cardinality({i \in 1..pages_saved : Serve(requests[i]).next_cursor # NoCursor})

\* C8 witness: a run of 3 persisted pages ended after 2 delays.
C8_Witness == oa_pc = "exited" /\ pages_saved = 3 /\ sleep_calls = 2

\* ------------------------------------------------- claims on get-pubmed.py
\* The collection a run builds from an empty one when every request succeeds
\* with the expected fields, over the batches whose offset is below limit.
RECURSIVE RunBatches(_, _, _)
RunBatches(d, st, limit) ==
  IF st >= limit THEN d
  ELSE RunBatches(
         StoreArticles(d, Summary(SearchIdList(st,
                            IF args.batch_size < Len(pm_remote) - st
                            THEN args.batch_size ELSE Len(pm_remote) - st), st)),
         st + args.batch_size, limit)

UninterruptedResult == RunBatches(<<>>, 0, Len(pm_remote))

\* C1 (as claimed): a run interrupted right after its N-th successful batch
\* persist (N >= 1) and started again ends, when no request fails, with the
\* collection and the output file of a run that was never interrupted.
C1_ResumedEqualsUninterrupted ==
  (/\ pm_pc = "exited"
   /\ pm_run > 1
   /\ pm_killed_after >= 1
   /\ pm_clean)
  => /\ all_articles = UninterruptedResult
     /\ pm_output_file.content = DictValues(UninterruptedResult)

\* C4 (as claimed): once the request of the batch at offset k has failed, no
\* batch beyond k is requested and the persisted articles are those of the
\* batches before k.
C4_FailedBatchAbortsLoop ==
  (/\ pm_failed_at >= 0
   /\ ~pm_loaded.from_file
   /\ ~pm_malformed.seen)
  => /\ \A i \in DOMAIN pm_requests : pm_requests[i] <= pm_failed_at
     /\ progress_file.articles = RunBatches(<<>>, 0, pm_failed_at)

\* C9 (as claimed): after a 200 response that lacks an expected field the run
\* is aborted by the error, and searched_combos is what it was before that
\* response.
C9_MalformedAborts ==
  pm_malformed.seen
  => /\ pm_pc \in {"crashed", "killed"}
     /\ searched_combos = pm_malformed.combos_before
     /\ progress_file.exists => progress_file.searched_combos = pm_malformed.combos_before

\* C10 (as claimed): with --no-resume the search loads nothing from an
\* existing search_progress.json and skips no term.
C10_NoResumeStartsFresh ==
  (args.no_resume /\ pm_pc \notin {"load", "idle"})
  => /\ ~pm_loaded.from_file
     /\ pm_loaded.searched_combos = <<>>
     /\ pm_loaded.articles = <<>>
     /\ pm_skipped = {}

KeysOf(d) == {d[i][1] : i \in DOMAIN d}

KeysDistinct(d) == \A i, j \in DOMAIN d : i # j => d[i][1] # d[j][1]

\* The value stored under key k.
DictGet(d, k) == d[CHOOSE i \in DOMAIN d : d[i][1] = k][2]

\* The last position of id k in the batch ids, counted in the result list.
LastPosIn(ids, k, offset) ==
  offset + CHOOSE i \in DOMAIN ids :
             ids[i] = k /\ \A j \in DOMAIN ids : ids[j] = k => j <= i

\* C11: the collection, in memory and in the progress file, holds at most one
\* entry per article id and never the "uids" key; the output list has one
\* element per id of the collection (in a run from scratch without failures:
\* one per distinct id of the result list); and a batch that returns ids
\* replaces the entries of the ids already present by the later data and
\* adds one entry per new id only.
C11_OneEntryPerId ==
  /\ [](/\ KeysDistinct(all_articles)
        /\ KeysDistinct(progress_file.articles)
        /\ UidsKey \notin KeysOf(all_articles)
        /\ UidsKey \notin KeysOf(progress_file.articles)
        /\ pm_pc = "exited"
           => /\ pm_output_file.content = DictValues(all_articles)
              /\ Len(pm_output_file.content) = Cardinality(KeysOf(all_articles))
        /\ (pm_pc = "exited" /\ pm_clean /\ ~pm_loaded.from_file)
           => /\ {pm_output_file.content[i].uid : i \in DOMAIN pm_output_file.content}
                   = Range(pm_remote)
              /\ Len(pm_output_file.content) = Cardinality(Range(pm_remote)))
  /\ [][(pm_pc = "details" /\ pm_pc' = "save" /\ pm_clean')
        => /\ Len(all_articles')
                = Len(all_articles) + Cardinality(Range(id_list) \ KeysOf(all_articles))
           /\ \A k \in Range(id_list) :
                DictGet(all_articles', k) = [uid |-> k, rev |-> LastPosIn(id_list, k, start)]
           /\ \A i \in DOMAIN all_articles :
                /\ all_articles'[i][1] = all_articles[i][1]
                /\ all_articles[i][1] \notin Range(id_list)
                   => all_articles'[i] = all_articles[i]]_vars

\* C11 witness: the id of batch 1 came again in batch 2; the collection
\* still has one entry, with the data of batch 2.
C11_Witness ==
  /\ pm_pc = "save"
  /\ pm_clean
  /\ start = 1
  /\ batch_persists = 1
  /\ Len(all_articles) = 1
  /\ all_articles[1][2].rev = 2

\* C12: the offsets of the batch requests of a run are strictly increasing,
\* so no offset is requested twice, a failed one included.
C12_OffsetsIncrease ==
  /\ \A i, j \in DOMAIN pm_requests : i < j => pm_requests[i] < pm_requests[j]
  /\ pm_failed_at >= 0 => Count(pm_failed_at, pm_requests) = 1

\* C12 witness: the loop went on to a later offset after a failed batch.
C12_Witness ==
  /\ pm_failed_at >= 0
  /\ Len(pm_requests) >= 2
  /\ Last(pm_requests) > pm_failed_at

\* C13 (as claimed): a term is listed in the searched_combos of the progress
\* file only if every id of its result list has been fetched and stored.
C13_CombosOnlyWhenComplete ==
  (progress_file.exists /\ ml_terms[1] \in Range(progress_file.searched_combos))
  => \A i \in DOMAIN pm_remote : pm_remote[i] \in KeysOf(progress_file.articles)

\* C14: after a batch iteration, whether it ended with the write of the try
\* block or with the write of the except clause, the articles of the progress
\* file are the in-memory all_articles when the next batch is due.
C14_ArticlesOnDisk ==
  (pm_pc = "batch" /\ Len(pm_requests) >= 1)
  => /\ progress_file.exists
     /\ progress_file.articles = all_articles

\* C14 witness: one batch was stored, another raised, the next one is due.
C14_Witness ==
  /\ pm_pc = "batch"
  /\ pm_failed_at >= 0
  /\ batch_persists >= 1
  /\ all_articles # <<>>
  /\ progress_file.articles = all_articles

\* ------------------------------------------------------- claims on main.py
\* C15 (as claimed): once a request has returned an empty batch, the loop
\* sends no further request.
C15_StopsAfterEmptyBatch == mp_after_empty = 0

\* C16 (as claimed): pmidsmeta.txt holds one line per PMID of every batch
\* that was saved, in the order they came, and nothing else.
C16_EachPmidWrittenOnce ==
  pmidsmeta = [i \in DOMAIN mp_saved |-> Line(mp_saved[i])]

\* ------------------------------------------ claims on download_full_texts
\* C17: every id of download_progress.json had its full text fetched
\* successfully and its xml file written; and with resume, no id that was
\* loaded from the progress file is fetched in that run.
C17_ProgressOnlyAfterDownload ==
  /\ \A id \in download_progress.ids : id \in dl_fetched_ok /\ id \in xml_files
  /\ resume => \A i \in DOMAIN dl_attempts : dl_attempts[i] \notin dl_loaded

\* C17 witness: a resumed run passed over a loaded id and fetched another.
C17_Witness ==
  /\ dl_pc = "done"
  /\ resume
  /\ dl_loaded # {}
  /\ \E i \in DOMAIN dl_articles : dl_articles[i][1] \in dl_loaded
  /\ dl_attempts # <<>>
  /\ download_progress.ids # dl_loaded

\* The ids of the items that are not "uids" and not in the set, in order.
RECURSIVE IdsToFetch(_, _)
IdsToFetch(items, have) ==
  IF items = <<>> THEN <<>>
  ELSE (IF Head(items)[1] # UidsKey /\ Head(items)[1] \notin have
        THEN <<Head(items)[1]>> ELSE <<>>) \o IdsToFetch(Tail(items), have)

\* C18: a failure at one article leaves download_progress.json as it is and
\* the loop goes on with the next item; when the function returns, every id
\* that was not already downloaded has been attempted exactly once, in
\* order, and completed is the number of articles other than "uids".
C18_FailureDoesNotStop ==
  /\ [](dl_pc = "done"
        => /\ dl_attempts = IdsToFetch(dl_articles, dl_loaded)
           /\ completed = Cardinality({i \in DOMAIN dl_articles :
                                         dl_articles[i][1] # UidsKey}))
  /\ [][dl_failures' = dl_failures + 1
        => /\ download_progress' = download_progress
           /\ dl_pc' = "loop"
           /\ dl_idx' = dl_idx + 1]_vars

\* C18 witness: a run with a failure returned after counting both articles
\* of a dict that also holds "uids", and downloaded the other one.
C18_Witness ==
  /\ dl_pc = "done"
  /\ dl_failures >= 1
  /\ Len(dl_articles) = 3
  /\ completed = 2
  /\ Len(dl_attempts) = 2
  /\ download_progress.ids # {}

\* ---------------------------- claims on analyze_normalized_citations.py
\* C19: of two ranked works with the same positive citation count, the more
\* recently published one never ranks below the older one.
C19_RecentNotBelowOlder ==
  an_pc \in {"print", "exited"}
  => \A i, j \in DOMAIN ranked :
       (/\ works[ranked[i]].cited_by_count = works[ranked[j]].cited_by_count
        /\ works[ranked[i]].cited_by_count > 0
        /\ works[ranked[i]].publication_year > works[ranked[j]].publication_year)
       => i < j

====
